---- MODULE Spec2Model ----
(***************************************************************************)
(* doc-analyzer: the analysis service (AnalysisService.AnalyzeFile), the   *)
(* result store it writes (AnalysisRepo), the plagiarism checker and the   *)
(* text analyzer it drives.                                                *)
(*                                                                         *)
(* A text is a sequence of one-character strings.  A word is a text        *)
(* without whitespace.                                                     *)
(***************************************************************************)
EXTENDS Integers, Sequences, FiniteSets, TLC

(***************************************************************************)
(* Bounds of the model.                                                    *)
(***************************************************************************)
\* requests started in one behaviour
MaxRequests == 3

(***************************************************************************)
(* Characters.                                                             *)
(***************************************************************************)
SP == " "
NL == "\n"
TAB == "\t"
DOT == "."

\* the rune U+00E9 (e with acute accent): one character, two bytes in UTF-8
EACUTE == "U+00E9"

\* the bytes of one rune in a Go string
RuneLen(c) == IF c = EACUTE THEN 2 ELSE 1

RECURSIVE ByteLenFrom(_, _)
ByteLenFrom(s, i) ==
    IF i > Len(s) THEN 0 ELSE RuneLen(s[i]) + ByteLenFrom(s, i + 1)

\* len(content): the bytes of a Go string
ByteLen(s) == ByteLenFrom(s, 1)

\* unicode.IsSpace over the model's alphabet
IsSpace(c) == c \in {SP, NL, TAB}

\* unicode.IsPunct over the model's alphabet
IsPunct(c) == c \in {DOT, ",", "!", "?"}

\* strings.ToLower, one rune
ToLowerRune(c) ==
    CASE c = "A" -> "a"
      [] c = "B" -> "b"
      [] c = "C" -> "c"
      [] c = "D" -> "d"
      [] c = "E" -> "e"
      [] OTHER -> c

\* strings.ToLower
ToLower(s) == [i \in 1..Len(s) |-> ToLowerRune(s[i])]

\* the stop words of NewTextAnalyzer that can be written in the model's alphabet
StopWords == { <<"a">>, <<"b","e">>, <<"b","e","e","n">>, <<"a","n">>, <<"a","n","d">> }

RECURSIVE FieldsFrom(_, _, _)
FieldsFrom(s, i, cur) ==
    IF i > Len(s)
    THEN (IF cur = <<>> THEN <<>> ELSE <<cur>>)
    ELSE IF IsSpace(s[i])
         THEN (IF cur = <<>> THEN FieldsFrom(s, i + 1, <<>>)
                             ELSE <<cur>> \o FieldsFrom(s, i + 1, <<>>))
         ELSE FieldsFrom(s, i + 1, Append(cur, s[i]))

\* strings.Fields: the maximal runs of non-space characters, in order
Fields(s) == FieldsFrom(s, 1, <<>>)

RECURSIVE JoinFrom(_, _)
JoinFrom(words, i) ==
    IF i > Len(words) THEN <<>>
    ELSE IF i = Len(words) THEN words[i]
    ELSE words[i] \o <<SP>> \o JoinFrom(words, i + 1)

\* strings.Join(words, " ")
Join(words) == JoinFrom(words, 1)

RECURSIVE SplitFrom(_, _, _)
SplitFrom(s, i, cur) ==
    IF i > Len(s) THEN <<cur>>
    ELSE IF i < Len(s) /\ s[i] = NL /\ s[i + 1] = NL
         THEN <<cur>> \o SplitFrom(s, i + 2, <<>>)
         ELSE SplitFrom(s, i + 1, Append(cur, s[i]))

\* strings.Split(content, "\n\n")
SplitParagraphs(s) == SplitFrom(s, 1, <<>>)

\* strings.TrimSpace(p) != ""
NonBlank(p) == \E i \in 1..Len(p) : ~IsSpace(p[i])

\* AnalyzeText with every segment counted as a paragraph, blank or not
AnalyzeTextAllSegments(content) ==
    [paragraphCount |-> Len(SplitParagraphs(content)),
     wordCount      |-> Len(Fields(content)),
     characterCount |-> ByteLen(content)]

\* TextAnalyzer.AnalyzeText
AnalyzeText(content) ==
    LET paragraphs == SplitParagraphs(content)
        nonEmptyParagraphs == SelectSeq(paragraphs, NonBlank)
    IN  [paragraphCount |-> Len(nonEmptyParagraphs),
         wordCount      |-> Len(Fields(content)),
         characterCount |-> ByteLen(content)]

\* TextAnalyzer.GetWords
GetWords(content) == Fields(content)

\* GetSignificantWords without the lower-casing
GetSignificantWordsCased(content) ==
    LET sb    == [i \in 1..Len(content) |-> IF ~IsPunct(content[i]) THEN content[i] ELSE SP]
        words == Fields(sb)
        Significant(word) == word \notin StopWords
    IN  SelectSeq(words, Significant)

\* TextAnalyzer.GetSignificantWords
GetSignificantWords(content) ==
    LET lower == ToLower(content)
        sb    == [i \in 1..Len(lower) |-> IF ~IsPunct(lower[i]) THEN lower[i] ELSE SP]
        words == Fields(sb)
        Significant(word) == word \notin StopWords
    IN  SelectSeq(words, Significant)

\* TextAnalyzer.GetNGrams
GetNGrams(content, n) ==
    LET words == GetWords(content)
    IN  IF Len(words) < n
        THEN <<>>
        ELSE [i \in 1..(Len(words) - n + 1) |-> Join(SubSeq(words, i, i + n - 1))]

RECURSIVE CollapseFrom(_, _, _)
CollapseFrom(s, i, inSpace) ==
    IF i > Len(s) THEN <<>>
    ELSE IF IsSpace(s[i])
         THEN (IF inSpace THEN CollapseFrom(s, i + 1, TRUE)
                          ELSE <<SP>> \o CollapseFrom(s, i + 1, TRUE))
         ELSE <<s[i]>> \o CollapseFrom(s, i + 1, FALSE)

\* TextAnalyzer.RemoveExcessWhitespace: every run of whitespace becomes one space
RemoveExcessWhitespace(text) == CollapseFrom(text, 1, FALSE)

(***************************************************************************)
(* PlagiarismChecker.                                                      *)
(***************************************************************************)
\* NewPlagiarismChecker: SimilarityThreshold 0.3 as the fraction 3/10
ThresholdNum == 3
ThresholdDen == 10
\* NewPlagiarismChecker: NGramSize
NGramSize == 3

\* PlagiarismChecker.preprocessText
preprocessText(text) == RemoveExcessWhitespace(Join(GetSignificantWords(text)))

\* PlagiarismChecker.generateNGrams: the frequency map of the n-grams
generateNGrams(text, n) ==
    LET ngrams == GetNGrams(text, n)
        keys   == {ngrams[i] : i \in 1..Len(ngrams)}
    IN  [g \in keys |-> Cardinality({i \in 1..Len(ngrams) : ngrams[i] = g})]

\* the similarity with the shared n-grams counted twice in the union
calculateJaccardDoubleCounted(ngrams1, ngrams2) ==
    LET set1 == DOMAIN ngrams1
        set2 == DOMAIN ngrams2
        intersection == Cardinality({g \in set1 : g \in set2})
        union == Cardinality(set1) + Cardinality(set2)
    IN  IF union = 0 THEN <<0, 1>> ELSE <<intersection, union>>

\* PlagiarismChecker.calculateJaccardSimilarity, as the fraction <<num, den>>;
\* the code's "union == 0 -> 0" is the fraction <<0, 1>>
calculateJaccardSimilarity(ngrams1, ngrams2) ==
    LET set1 == DOMAIN ngrams1
        set2 == DOMAIN ngrams2
        intersection == Cardinality({g \in set1 : g \in set2})
        union == Cardinality(set1) + Cardinality(set2) - intersection
    IN  IF union = 0 THEN <<0, 1>> ELSE <<intersection, union>>

\* PlagiarismChecker.calculateHash: SHA-256 in hex, taken as collision free on
\* the model's texts: the digest of a text is the tagged text
calculateHash(content) == <<"sha256", content>>

\* similarity >= c.SimilarityThreshold
AtLeastThreshold(similarity) ==
    similarity[1] * ThresholdDen >= ThresholdNum * similarity[2]

\* the body of CheckPlagiarism's loop: whether the candidate is appended
IsSimilar(content, otherContent) ==
    LET processedContent == preprocessText(content)
        processedOtherContent == preprocessText(otherContent)
    IN  IF calculateHash(processedContent) = calculateHash(processedOtherContent)
        THEN TRUE
        ELSE AtLeastThreshold(calculateJaccardSimilarity(
                 generateNGrams(processedContent, NGramSize),
                 generateNGrams(processedOtherContent, NGramSize)))

\* the candidates CheckPlagiarism appends, as a set
SimilarSet(content, otherContents) ==
    {id \in DOMAIN otherContents : IsSimilar(content, otherContents[id])}

\* the PlagiarismChecker struct: SimilarityThreshold as the fraction
\* <<num, den>> with den > 0, and NGramSize; NewPlagiarismChecker's defaults
NewPlagiarismChecker ==
    [SimilarityThreshold |-> <<ThresholdNum, ThresholdDen>>, NGramSize |-> NGramSize]

\* a slice expression words[low:high] fails its bounds check
SliceOutOfRange(words, low, high) ==
    low < 0 \/ high < low \/ high > Len(words)

\* TextAnalyzer.GetNGrams panics: some words[i:i+n] of its loop is out of range
GetNGramsPanics(content, n) ==
    LET words == GetWords(content)
    IN  /\ ~(Len(words) < n)
        /\ \E i \in 0..(Len(words) - n) : SliceOutOfRange(words, i, i + n)

\* similarity > threshold: the comparison without the equality case
AtLeastStrict(similarity, threshold) ==
    similarity[1] * threshold[2] > threshold[1] * similarity[2]

\* similarity >= c.SimilarityThreshold, for the threshold of a checker c
AtLeast(similarity, threshold) ==
    similarity[1] * threshold[2] >= threshold[1] * similarity[2]

\* the similarity CheckPlagiarism computes for one candidate of a checker c
Similarity(c, processedContent, processedOtherContent) ==
    calculateJaccardSimilarity(generateNGrams(processedContent, c.NGramSize),
                               generateNGrams(processedOtherContent, c.NGramSize))

\* the loop body without the `continue` after the hash match: the candidate
\* goes on to the n-gram comparison and may be appended a second time
LoopBodyNoContinue(c, similarFileIDs, fileID, content, otherContent) ==
    LET processedContent == preprocessText(content)
        processedOtherContent == preprocessText(otherContent)
        afterHash ==
            IF calculateHash(processedContent) = calculateHash(processedOtherContent)
            THEN Append(similarFileIDs, fileID)
            ELSE similarFileIDs
    IN  IF AtLeast(Similarity(c, processedContent, processedOtherContent),
                   c.SimilarityThreshold)
        THEN Append(afterHash, fileID)
        ELSE afterHash

\* the loop body without the hash comparison: n-gram similarity only
LoopBodyNoHash(c, similarFileIDs, fileID, content, otherContent) ==
    IF AtLeast(Similarity(c, preprocessText(content), preprocessText(otherContent)),
               c.SimilarityThreshold)
    THEN Append(similarFileIDs, fileID)
    ELSE similarFileIDs

\* the loop body that stops looking once one candidate has been appended
LoopBodyFirstOnly(c, similarFileIDs, fileID, content, otherContent) ==
    IF similarFileIDs # <<>>
    THEN similarFileIDs
    ELSE IF \/ calculateHash(preprocessText(content)) =
               calculateHash(preprocessText(otherContent))
            \/ AtLeast(Similarity(c, preprocessText(content), preprocessText(otherContent)),
                       c.SimilarityThreshold)
         THEN Append(similarFileIDs, fileID)
         ELSE similarFileIDs

\* one iteration of CheckPlagiarism's loop for a checker c: similarFileIDs
\* after the candidate fileID with text otherContent has been compared
LoopBody(c, similarFileIDs, fileID, content, otherContent) ==
    LET processedContent == preprocessText(content)
        processedOtherContent == preprocessText(otherContent)
    IN  IF calculateHash(processedContent) = calculateHash(processedOtherContent)
        THEN Append(similarFileIDs, fileID)
        ELSE IF AtLeast(Similarity(c, processedContent, processedOtherContent),
                        c.SimilarityThreshold)
             THEN Append(similarFileIDs, fileID)
             ELSE similarFileIDs

(***************************************************************************)
(* The world of the analysis service.                                      *)
(***************************************************************************)
DocIds == {"d1", "d2", "d3"}

\* "B c d."     normalizes to "b c d"
TextD1 == <<"B", SP, "c", SP, "d", DOT>>
\* "a b  c d e" normalizes to "b c d e" ("a" is a stop word): it shares one of
\* its two 3-grams with d1 (1/2) and one of three with d3 (1/3)
TextD2 == <<"a", SP, "b", SP, SP, "c", SP, "d", SP, "e">>
\* "c d\n\ne f" normalizes to "c d e f": two paragraphs, nothing shared with d1
TextD3 == <<"c", SP, "d", NL, NL, "e", SP, "f">>

\* the File Storing Service's files: what GetFile returns for each id
Files == [d1 |-> TextD1, d2 |-> TextD2, d3 |-> TextD3]

\* the verdict of CheckPlagiarism's loop body for every two files, worked out
\* once
Verdict ==
    [content \in {Files[d] : d \in DocIds} |->
        [otherContent \in {Files[d] : d \in DocIds} |-> IsSimilar(content, otherContent)]]

\* SimilarSet over files of the File Storing Service
SimilarFiles(content, otherContents) ==
    {id \in DOMAIN otherContents : Verdict[content][otherContents[id]]}

\* the requests that can be in flight together
Reqs == {1, 2}

\* the empty string
Empty == <<>>
\* a nil error
Nil == ""
\* an empty map[string]string
EmptyMap == [x \in {} |-> <<>>]

\* every order in which the elements of S can be listed
Orders(S) ==
    {s \in [1..Cardinality(S) -> S] : \A i, j \in 1..Cardinality(S) : s[i] = s[j] => i = j}

Range(s) == {s[i] : i \in 1..Len(s)}

VARIABLES
    results,    \* table analysis_results: a set of rows
    edges,      \* table similar_files: a set of <<file_id, similar_file_id>>
    clouds,     \* word cloud storage: the locations written
    nreq,       \* requests started so far
    req,        \* per request: position, arguments, locals and named results
    chk,        \* one use of a PlagiarismChecker or TextAnalyzer on its own
    gw,         \* the API gateway: one HTTP request, one call of a gRPC client
    st          \* the File Storing Service: table files, stored contents, uploads

vars == <<results, edges, clouds, nreq, req, chk, gw, st>>

\* a request slot before AnalyzeFile is entered
IdleReq ==
    [pc |-> "idle", fileID |-> "", generateWordCloud |-> FALSE, serial |-> 0,
     paragraphCount |-> 0, wordCount |-> 0, characterCount |-> 0,
     isPlagiarism |-> FALSE, similarFileIDs |-> <<>>, wordCloudLocation |-> Empty,
     err |-> Nil, content |-> Empty, otherFileIDs |-> <<>>, i |-> 0,
     otherContents |-> EmptyMap, location |-> Empty, calls |-> <<>>,
     ctxDone |-> FALSE]

\* the upload slots of the File Storing Service: calls of UploadFile that may
\* run at the same time
Ups == {1, 2}

\* an upload slot before FileService.UploadFile is entered
IdleUp ==
    [pc |-> "idle", fileName |-> "", content |-> Empty, hashStr |-> <<>>,
     fileID |-> "", location |-> "", err |-> Nil, calls |-> <<>>]

\* the File Storing Service after start-up: table files created and empty,
\* nothing stored, no upload made
IdleSt ==
    [files |-> {}, blobs |-> {}, nup |-> 0, uuids |-> 0,
     up |-> [u \in Ups |-> IdleUp], returned |-> <<>>]

\* the gateway before a request: no handler entered, no client called
IdleGw ==
    [pc |-> "idle", handler |-> FALSE, body |-> [hasFileId |-> FALSE, file_id |-> "",
                                                 generate_word_cloud |-> FALSE],
     method |-> "", attempt |-> 0, retryDelay |-> 0, rpcs |-> <<>>,
     result |-> "", status |-> 0]

\* a checker before any of its methods is called: its fields and the
\* arguments it is going to be called with
IdleChk ==
    [pc |-> "idle", c |-> NewPlagiarismChecker, content |-> Empty,
     otherContents |-> EmptyMap, order |-> <<>>, i |-> 0, similarFileIDs |-> <<>>,
     isPlagiarism |-> FALSE, first |-> <<>>, fileID |-> "", similarity |-> <<0, 1>>,
     ngrams |-> <<>>, stats |-> [paragraphCount |-> 0, wordCount |-> 0, characterCount |-> 0]]

Init ==
    /\ results = {}
    /\ edges = {}
    /\ clouds = {}
    /\ nreq = 0
    /\ req = [r \in Reqs |-> IdleReq]
    /\ chk = IdleChk
    /\ gw = IdleGw
    /\ st = IdleSt

\* the record of one call made by the handler
Call(op, arg, res) == [op |-> op, arg |-> arg, res |-> res]

\* q after the call has been made
Logged(q, op, arg, res) == [q EXCEPT !.calls = Append(@, Call(op, arg, res))]

\* `return 0, 0, 0, false, nil, "", fmt.Errorf(...)`
FailedReturn(q, msg) ==
    [q EXCEPT !.pc = "failed", !.paragraphCount = 0, !.wordCount = 0,
              !.characterCount = 0, !.isPlagiarism = FALSE, !.similarFileIDs = <<>>,
              !.wordCloudLocation = Empty, !.err = msg]

\* rows of analysis_results with the given file_id
RowsOf(rows, id) == {row \in rows : row.file_id = id}

\* mutant: a plain insert, the row of an earlier save stays
UpsertAppend(rows, row) == rows \cup {row}

\* mutant: the write is lost
UpsertLost(rows, row) == rows

\* INSERT ... ON CONFLICT (file_id) DO UPDATE SET ...
UpsertResult(rows, row) == (rows \ RowsOf(rows, row.file_id)) \cup {row}

\* mutant: the two ids are handed over in the wrong order
InsertSimilarSwapped(es, fileID, similarFileID) == es \cup {<<similarFileID, fileID>>}

\* the edge stored in both directions
InsertSimilarBothWays(es, fileID, similarFileID) ==
    es \cup {<<fileID, similarFileID>>, <<similarFileID, fileID>>}

\* INSERT ... ON CONFLICT (file_id, similar_file_id) DO NOTHING
InsertSimilar(es, fileID, similarFileID) == es \cup {<<fileID, similarFileID>>}

\* SELECT similar_file_id FROM similar_files WHERE file_id = $1
SimilarOf(es, fileID) == {e[2] : e \in {x \in es : x[1] = fileID}}

\* SELECT file_id FROM analysis_results
AllFileIDs(rows) == {row.file_id : row \in rows}

\* the location GenerateWordCloud makes up: uuid.New().String() + ".png"
NewLocation(serial) == <<serial>>

(***************************************************************************)
(* The branches of AnalyzeFile.  q is the request after the call, with the *)
(* call's results assigned.                                                *)
(***************************************************************************)
\* mutant: the stored result is never taken, every request computes
CacheHitNever(err) == FALSE

\* `if err == nil` after GetAnalysisResult
CacheHit(err) == err = Nil

\* mutant: the stored result is looked up and then ignored
AfterLookupIgnored(q) == [q EXCEPT !.pc = "FetchTarget"]

\* after GetAnalysisResult: on a hit GetSimilarFiles or the return, else on
AfterLookup(q) ==
    IF CacheHit(q.err)
    THEN [q EXCEPT !.pc = IF q.isPlagiarism THEN "FetchSimilar" ELSE "done"]
    ELSE [q EXCEPT !.pc = "FetchTarget"]

\* a failed GetSimilarFiles answered with the stored values and no similar ids
OnSimilarErrorCached(q) == [q EXCEPT !.pc = "done", !.err = Nil]

\* GetSimilarFiles failed
OnSimilarError(q) == FailedReturn(q, "failed to get similar files")

\* mutant: the failed fetch is taken for an empty document
OnTargetErrorIgnored(q) == [q EXCEPT !.pc = "ListCorpus"]

\* GetFile for the target failed
OnTargetError(q) == FailedReturn(q, "failed to get file content")

\* mutant: a failed listing is taken for an empty corpus
OnListErrorIgnored(q) ==
    [q EXCEPT !.pc = "FetchCorpus", !.otherFileIDs = <<>>, !.i = 1, !.otherContents = EmptyMap]

\* GetAllFileIDs failed
OnListError(q) == FailedReturn(q, "failed to get all file IDs")

\* mutant: the check for the current file is missing
SkipCurrentNever(otherFileID, fileID) == FALSE

\* `if otherFileID == fileID { continue }`
SkipCurrent(otherFileID, fileID) == otherFileID = fileID

\* mutant: one unreadable corpus document fails the request
OnCorpusErrorFatal(q) == FailedReturn(q, "failed to get file content")

\* GetFile for a corpus document failed: logged, `continue`
OnCorpusError(q) == [q EXCEPT !.i = q.i + 1]

\* `otherContents[otherFileID] = string(otherContent)`
OnCorpusContent(q, otherFileID) ==
    [q EXCEPT !.i = q.i + 1,
              !.otherContents = [d \in DOMAIN q.otherContents \cup {otherFileID} |->
                                    IF d = otherFileID THEN Files[otherFileID]
                                                       ELSE q.otherContents[d]]]

\* the second GetFile for the target, made for the word cloud, failed
OnWordCloudTextError(q) == FailedReturn(q, "failed to get file content")

\* mutant: a failed render fails the request
OnRenderErrorFatal(q) == FailedReturn(q, "failed to generate word cloud")

\* GenerateWordCloud failed: logged, the analysis goes on without a word cloud
OnRenderError(q) == [q EXCEPT !.pc = "PersistResult"]

\* SaveWordCloud failed: logged
OnSaveWordCloudError(q) == [q EXCEPT !.pc = "PersistResult", !.err = "failed to save word cloud"]

\* SaveWordCloud succeeded: `wordCloudLocation = location`
OnSaveWordCloudOk(q) == [q EXCEPT !.pc = "PersistResult", !.err = Nil, !.wordCloudLocation = q.location]

\* the row AnalyzeFile hands to SaveAnalysisResult
ResultRow(q) ==
    [file_id |-> q.fileID, paragraph_count |-> q.paragraphCount,
     word_count |-> q.wordCount, character_count |-> q.characterCount,
     is_plagiarism |-> q.isPlagiarism, word_cloud_location |-> q.wordCloudLocation]

\* mutant: a failed save is logged and the edges are written all the same
OnSaveResultErrorIgnored(q) ==
    [q EXCEPT !.pc = IF q.isPlagiarism /\ Len(q.similarFileIDs) > 0 THEN "PersistEdges" ELSE "done",
              !.i = 1]

\* SaveAnalysisResult failed
OnSaveResultError(q) == FailedReturn(q, "failed to save analysis results")

\* SaveAnalysisResult succeeded: `if isPlagiarism` the loop over similarFileIDs
\* (which has an element exactly when isPlagiarism), then the return
OnSaveResultOk(q) ==
    [q EXCEPT !.pc = IF q.isPlagiarism /\ Len(q.similarFileIDs) > 0 THEN "PersistEdges" ELSE "done",
              !.i = 1, !.err = Nil]

\* the end of an iteration of the loop over similarFileIDs
NextEdge(q) ==
    [q EXCEPT !.pc = IF q.i + 1 > Len(q.similarFileIDs) THEN "done" ELSE "PersistEdges",
              !.i = q.i + 1]

\* mutant: the first failed edge write ends the request
OnEdgeErrorFatal(q) == FailedReturn(q, "failed to save similar file")

\* SaveSimilarFile failed: logged, the loop goes on
OnEdgeError(q) == [NextEdge(q) EXCEPT !.err = Nil]

(***************************************************************************)
(* AnalysisService.AnalyzeFile, one action per call it makes.              *)
(***************************************************************************)
(***************************************************************************)
(* ctx: once it is done, a call that takes it returns its error without    *)
(* having been carried out.                                                *)
(***************************************************************************)
\* r.db.QueryRowContext(ctx, ...) and r.db.QueryContext(ctx, ...)
QueryContext(q) == ~q.ctxDone

\* mutant: the statement is run without the request's ctx
ExecWithoutContext(q) == TRUE

\* r.db.ExecContext(ctx, ...)
ExecContext(q) == ~q.ctxDone

\* c.client.GetFile(ctx, ...), under context.WithTimeout(ctx, ...)
ClientGetFile(q) == ~q.ctxDone

\* http.NewRequestWithContext(ctx, ...) and client.Do(req)
ClientDo(q) == ~q.ctxDone

\* a caller enters AnalyzeFile(ctx, fileID, generateWordCloud)
Start(r, id, g) ==
    /\ req[r].pc = "idle"
    /\ \A r2 \in Reqs : r2 < r => req[r2].pc # "idle"
    /\ nreq < MaxRequests
    /\ nreq' = nreq + 1
    /\ req' = [req EXCEPT ![r] = [IdleReq EXCEPT !.pc = "CheckCache", !.fileID = id,
                                      !.generateWordCloud = g, !.serial = nreq + 1]]
    /\ UNCHANGED <<results, edges, clouds, chk, gw, st>>

\* a caller enters AnalyzeFile once every earlier response has been taken
StartSeq(r, id, g) ==
    /\ \A r2 \in Reqs : req[r2].pc = "idle"
    /\ Start(r, id, g)

\* a caller enters AnalyzeFile while no other request is running; an earlier
\* response may still be with its caller
StartAfter(r, id, g) ==
    /\ \A r2 \in Reqs : req[r2].pc \in {"idle", "done", "failed"}
    /\ Start(r, id, g)

\* s.repo.GetAnalysisResult: the row, or "not found" when there is none, or a
\* failed query
CheckCache(r) ==
    LET q == req[r] IN
    /\ q.pc = "CheckCache"
    /\ \/ \E row \in (IF QueryContext(q) THEN RowsOf(results, q.fileID) ELSE {}) :
            req' = [req EXCEPT ![r] = AfterLookup(
                [Logged(q, "GetAnalysisResult", q.fileID, "ok")
                    EXCEPT !.paragraphCount = row.paragraph_count,
                           !.wordCount = row.word_count,
                           !.characterCount = row.character_count,
                           !.isPlagiarism = row.is_plagiarism,
                           !.wordCloudLocation = row.word_cloud_location,
                           !.err = Nil])]
       \/ \E res \in (IF RowsOf(results, q.fileID) = {} THEN {"notfound"} ELSE {"fail"}) :
            req' = [req EXCEPT ![r] = AfterLookup(
                [Logged(q, "GetAnalysisResult", q.fileID, res)
                    EXCEPT !.paragraphCount = 0, !.wordCount = 0, !.characterCount = 0,
                           !.isPlagiarism = FALSE, !.wordCloudLocation = Empty,
                           !.err = "failed to get analysis result"])]
    /\ UNCHANGED <<results, edges, clouds, nreq, chk, gw, st>>

\* s.repo.GetSimilarFiles on a cache hit with is_plagiarism
FetchSimilar(r) ==
    LET q == req[r] IN
    /\ q.pc = "FetchSimilar"
    /\ \/ /\ QueryContext(q)
          /\ \E order \in Orders(SimilarOf(edges, q.fileID)) :
            req' = [req EXCEPT ![r] =
                [Logged(q, "GetSimilarFiles", q.fileID, "ok")
                    EXCEPT !.pc = "done", !.similarFileIDs = order, !.err = Nil]]
       \/ req' = [req EXCEPT ![r] = OnSimilarError(Logged(q, "GetSimilarFiles", q.fileID, "fail"))]
    /\ UNCHANGED <<results, edges, clouds, nreq, chk, gw, st>>

\* s.fileStoringClient.GetFile for the target, then s.textAnalyzer.AnalyzeText
FetchTarget(r) ==
    LET q == req[r] IN
    /\ q.pc = "FetchTarget"
    /\ \/ LET stats == AnalyzeText(Files[q.fileID]) IN
          /\ ClientGetFile(q)
          /\ req' = [req EXCEPT ![r] =
                [Logged(q, "GetFile", q.fileID, "ok")
                    EXCEPT !.pc = "ListCorpus", !.content = Files[q.fileID], !.err = Nil,
                           !.paragraphCount = stats.paragraphCount,
                           !.wordCount = stats.wordCount,
                           !.characterCount = stats.characterCount]]
       \/ req' = [req EXCEPT ![r] = OnTargetError(Logged(q, "GetFile", q.fileID, "fail"))]
    /\ UNCHANGED <<results, edges, clouds, nreq, chk, gw, st>>

\* s.repo.GetAllFileIDs; the rows come in no particular order
ListCorpus(r) ==
    LET q == req[r] IN
    /\ q.pc = "ListCorpus"
    /\ \/ /\ QueryContext(q)
          /\ \E order \in Orders(AllFileIDs(results)) :
            req' = [req EXCEPT ![r] =
                [Logged(q, "GetAllFileIDs", "", "ok")
                    EXCEPT !.pc = "FetchCorpus", !.otherFileIDs = order, !.i = 1,
                           !.err = Nil, !.otherContents = EmptyMap]]
       \/ req' = [req EXCEPT ![r] = OnListError(Logged(q, "GetAllFileIDs", "", "fail"))]
    /\ UNCHANGED <<results, edges, clouds, nreq, chk, gw, st>>

\* one iteration of `for _, otherFileID := range otherFileIDs`
FetchCorpus(r) ==
    LET q == req[r] IN
    /\ q.pc = "FetchCorpus"
    /\ q.i <= Len(q.otherFileIDs)
    /\ LET otherFileID == q.otherFileIDs[q.i] IN
       IF SkipCurrent(otherFileID, q.fileID)
       THEN req' = [req EXCEPT ![r] = [q EXCEPT !.i = q.i + 1]]
       ELSE \/ /\ ClientGetFile(q)
               /\ req' = [req EXCEPT ![r] =
                    OnCorpusContent(Logged(q, "GetFile", otherFileID, "ok"), otherFileID)]
            \/ req' = [req EXCEPT ![r] =
                    OnCorpusError(Logged(q, "GetFile", otherFileID, "fail"))]
    /\ UNCHANGED <<results, edges, clouds, nreq, chk, gw, st>>

\* s.plagiarismChecker.CheckPlagiarism once the loop is over; the ids come in
\* the iteration order of a Go map
RunSimilarity(r) ==
    LET q == req[r] IN
    /\ q.pc = "FetchCorpus"
    /\ q.i > Len(q.otherFileIDs)
    /\ \E order \in Orders(SimilarFiles(q.content, q.otherContents)) :
          req' = [req EXCEPT ![r] =
              [Logged(q, "CheckPlagiarism", q.fileID, "ok")
                  EXCEPT !.pc = IF q.generateWordCloud THEN "WCFetch" ELSE "PersistResult",
                         !.isPlagiarism = Len(order) > 0,
                         !.similarFileIDs = order]]
    /\ UNCHANGED <<results, edges, clouds, nreq, chk, gw, st>>

\* `if generateWordCloud`: the second s.fileStoringClient.GetFile for the target
WCFetch(r) ==
    LET q == req[r] IN
    /\ q.pc = "WCFetch"
    /\ \/ /\ ClientGetFile(q)
          /\ req' = [req EXCEPT ![r] =
                [Logged(q, "GetFile", q.fileID, "ok") EXCEPT !.pc = "WCRender", !.err = Nil]]
       \/ req' = [req EXCEPT ![r] = OnWordCloudTextError(Logged(q, "GetFile", q.fileID, "fail"))]
    /\ UNCHANGED <<results, edges, clouds, nreq, chk, gw, st>>

\* s.wordCloudGenerator.GenerateWordCloud
WCRender(r) ==
    LET q == req[r] IN
    /\ q.pc = "WCRender"
    /\ \/ /\ ClientDo(q)
          /\ req' = [req EXCEPT ![r] =
                [Logged(q, "GenerateWordCloud", q.fileID, "ok")
                    EXCEPT !.pc = "WCSave", !.location = NewLocation(q.serial)]]
       \/ req' = [req EXCEPT ![r] = OnRenderError(Logged(q, "GenerateWordCloud", q.fileID, "fail"))]
    /\ UNCHANGED <<results, edges, clouds, nreq, chk, gw, st>>

\* s.storage.SaveWordCloud
WCSave(r) ==
    LET q == req[r] IN
    /\ q.pc = "WCSave"
    /\ \/ /\ req' = [req EXCEPT ![r] = OnSaveWordCloudOk(Logged(q, "SaveWordCloud", q.fileID, "ok"))]
          /\ clouds' = clouds \cup {q.location}
       \/ /\ req' = [req EXCEPT ![r] = OnSaveWordCloudError(Logged(q, "SaveWordCloud", q.fileID, "fail"))]
          /\ UNCHANGED clouds
    /\ UNCHANGED <<results, edges, nreq, chk, gw, st>>

\* s.repo.SaveAnalysisResult
PersistResult(r) ==
    LET q == req[r] IN
    /\ q.pc = "PersistResult"
    /\ \/ /\ ExecContext(q)
          /\ results' = UpsertResult(results, ResultRow(q))
          /\ req' = [req EXCEPT ![r] = OnSaveResultOk(Logged(q, "SaveAnalysisResult", q.fileID, "ok"))]
       \/ /\ UNCHANGED results
          /\ req' = [req EXCEPT ![r] = OnSaveResultError(Logged(q, "SaveAnalysisResult", q.fileID, "fail"))]
    /\ UNCHANGED <<edges, clouds, nreq, chk, gw, st>>

\* one iteration of `for _, similarFileID := range similarFileIDs`: one
\* s.repo.SaveSimilarFile; the function returns after the last one
PersistEdges(r) ==
    LET q == req[r]
        similarFileID == q.similarFileIDs[q.i]
    IN
    /\ q.pc = "PersistEdges"
    /\ q.i <= Len(q.similarFileIDs)
    /\ \/ /\ ExecContext(q)
          /\ edges' = InsertSimilar(edges, q.fileID, similarFileID)
          /\ req' = [req EXCEPT ![r] =
                [NextEdge(Logged(q, "SaveSimilarFile", similarFileID, "ok")) EXCEPT !.err = Nil]]
       \/ /\ UNCHANGED edges
          /\ req' = [req EXCEPT ![r] = OnEdgeError(Logged(q, "SaveSimilarFile", similarFileID, "fail"))]
    /\ UNCHANGED <<results, clouds, nreq, chk, gw, st>>

\* the caller has taken the response; the slot is free again
Return(r) ==
    /\ req[r].pc \in {"done", "failed"}
    /\ req' = [req EXCEPT ![r] = IdleReq]
    /\ UNCHANGED <<results, edges, clouds, nreq, chk, gw, st>>

\* the request is waiting for a content fetch or for the word cloud render
Blocked(q) ==
    \/ q.pc \in {"FetchTarget", "WCFetch", "WCRender"}
    \/ /\ q.pc = "FetchCorpus"
       /\ q.i <= Len(q.otherFileIDs)
       /\ ~SkipCurrent(q.otherFileIDs[q.i], q.fileID)

\* the caller's ctx is cancelled, or its deadline passes, during such a call
Cancel(r) ==
    /\ Blocked(req[r])
    /\ ~req[r].ctxDone
    /\ req' = [req EXCEPT ![r].ctxDone = TRUE]
    /\ UNCHANGED <<results, edges, clouds, nreq, chk, gw, st>>

\* requests arrive at any time
Next ==
    \E r \in Reqs :
        \/ \E id \in DocIds, g \in BOOLEAN : Start(r, id, g)
        \/ CheckCache(r)
        \/ FetchSimilar(r)
        \/ FetchTarget(r)
        \/ ListCorpus(r)
        \/ FetchCorpus(r)
        \/ RunSimilarity(r)
        \/ WCFetch(r)
        \/ WCRender(r)
        \/ WCSave(r)
        \/ PersistResult(r)
        \/ PersistEdges(r)
        \/ Return(r)

Spec == Init /\ [][Next]_vars

\* the same service with its requests made one after the other
NextSeq ==
    \E r \in Reqs :
        \/ \E id \in DocIds, g \in BOOLEAN : StartSeq(r, id, g)
        \/ CheckCache(r)
        \/ FetchSimilar(r)
        \/ FetchTarget(r)
        \/ ListCorpus(r)
        \/ FetchCorpus(r)
        \/ RunSimilarity(r)
        \/ WCFetch(r)
        \/ WCRender(r)
        \/ WCSave(r)
        \/ PersistResult(r)
        \/ PersistEdges(r)
        \/ Return(r)

SpecSeq == Init /\ [][NextSeq]_vars

\* the same, the response of the call before still at hand
NextPair ==
    \E r \in Reqs :
        \/ \E id \in DocIds, g \in BOOLEAN : StartAfter(r, id, g)
        \/ CheckCache(r)
        \/ FetchSimilar(r)
        \/ FetchTarget(r)
        \/ ListCorpus(r)
        \/ FetchCorpus(r)
        \/ RunSimilarity(r)
        \/ WCFetch(r)
        \/ WCRender(r)
        \/ WCSave(r)
        \/ PersistResult(r)
        \/ PersistEdges(r)
        \/ Return(r)

SpecPair == Init /\ [][NextPair]_vars

\* the next call of request r, whichever it is
Step(r) ==
    \/ CheckCache(r)
    \/ FetchSimilar(r)
    \/ FetchTarget(r)
    \/ ListCorpus(r)
    \/ FetchCorpus(r)
    \/ RunSimilarity(r)
    \/ WCFetch(r)
    \/ WCRender(r)
    \/ WCSave(r)
    \/ PersistResult(r)
    \/ PersistEdges(r)

\* requests made one after the other, each with a ctx its caller may cancel
NextCancel ==
    \E r \in Reqs :
        \/ \E id \in DocIds, g \in BOOLEAN : StartSeq(r, id, g)
        \/ Step(r)
        \/ Cancel(r)
        \/ Return(r)

\* every call returns: a running request goes on to its next call
SpecCancel == Init /\ [][NextCancel]_vars /\ \A r \in Reqs : WF_vars(Step(r))

(***************************************************************************)
(* The plagiarism checker and the text analyzer on their own: one checker, *)
(* its two fields set by the caller, called with one text and one map of   *)
(* candidate texts.                                                        *)
(***************************************************************************)
\* the largest NGramSize a checker is given
MaxNGramSize == 4

\* "b  c d"      normalizes to "b c d", as d1 does
TextD1b == <<"b", SP, SP, "c", SP, "d">>
\* "b c d b c d" normalizes to itself: the 3-gram "b c d" occurs twice in it
TextRep == <<"b", SP, "c", SP, "d", SP, "b", SP, "c", SP, "d">>
\* "a."  and "Be" are stop words only: both normalize to the empty text
TextStop == <<"a", DOT>>
TextStop2 == <<"B", "e">>

\* the texts a checker is called with
CheckTexts == {TextD1, TextD1b, TextD2, TextD3, TextRep, TextStop, TextStop2}

\* the keys of otherContents
CandidateIds == {"f1", "f2"}

\* the maps otherContents a checker is called with
Candidates ==
    UNION {[ids -> CheckTexts] : ids \in SUBSET CandidateIds}

\* the values SimilarityThreshold is set to: 0.3 (the default), 0.5 and 1.5
Thresholds == {<<ThresholdNum, ThresholdDen>>, <<1, 2>>, <<3, 2>>}

\* the checkers: the struct's two exported fields, set freely by the caller
Checkers ==
    [SimilarityThreshold : Thresholds, NGramSize : (-1)..MaxNGramSize]

\* a checker and the arguments of the call to come
InitCheck ==
    /\ results = {}
    /\ edges = {}
    /\ clouds = {}
    /\ nreq = 0
    /\ gw = IdleGw
    /\ st = IdleSt
    /\ req = [r \in Reqs |-> IdleReq]
    /\ \E c \in Checkers, content \in CheckTexts, otherContents \in Candidates :
          chk = [IdleChk EXCEPT !.c = c, !.content = content,
                                !.otherContents = otherContents]

\* CheckPlagiarism up to its loop: the target's n-grams are generated first,
\* and the map is then ranged over in an order of the runtime's choosing
CallCheckPlagiarism ==
    /\ chk.pc = "idle"
    /\ IF GetNGramsPanics(preprocessText(chk.content), chk.c.NGramSize)
       THEN chk' = [chk EXCEPT !.pc = "panic"]
       ELSE \E order \in Orders(DOMAIN chk.otherContents) :
                chk' = [chk EXCEPT !.pc = "loop", !.order = order, !.i = 1,
                                   !.similarFileIDs = <<>>]
    /\ UNCHANGED <<results, edges, clouds, nreq, req, gw, st>>

\* one iteration of the loop
LoopStep ==
    /\ chk.pc = "loop"
    /\ chk.i <= Len(chk.order)
    /\ chk' = [chk EXCEPT
                  !.similarFileIDs = LoopBody(chk.c, @, chk.order[chk.i], chk.content,
                                              chk.otherContents[chk.order[chk.i]]),
                  !.i = @ + 1]
    /\ UNCHANGED <<results, edges, clouds, nreq, req, gw, st>>

\* return len(similarFileIDs) > 0, similarFileIDs
ReturnCheckPlagiarism ==
    /\ chk.pc = "loop"
    /\ chk.i > Len(chk.order)
    /\ chk' = [chk EXCEPT !.pc = "returned",
                          !.isPlagiarism = Len(chk.similarFileIDs) > 0]
    /\ UNCHANGED <<results, edges, clouds, nreq, req, gw, st>>

\* the same checker called once more with the same arguments, what the first
\* call returned being kept
CallAgain ==
    /\ chk.pc = "returned"
    /\ chk.first = <<>>
    /\ \E order \in Orders(DOMAIN chk.otherContents) :
          chk' = [chk EXCEPT
                    !.first = <<[isPlagiarism |-> chk.isPlagiarism,
                                 similarFileIDs |-> chk.similarFileIDs,
                                 order |-> chk.order]>>,
                    !.pc = "loop", !.order = order, !.i = 1,
                    !.similarFileIDs = <<>>, !.isPlagiarism = FALSE]
    /\ UNCHANGED <<results, edges, clouds, nreq, req, gw, st>>

\* the similarity of the target and one candidate, computed as CheckPlagiarism
\* computes it: calculateJaccardSimilarity of the two n-gram maps
CallJaccard(fileID) ==
    /\ chk.pc = "idle"
    /\ fileID \in DOMAIN chk.otherContents
    /\ IF GetNGramsPanics(preprocessText(chk.content), chk.c.NGramSize)
       THEN chk' = [chk EXCEPT !.pc = "panic"]
       ELSE chk' = [chk EXCEPT
                      !.pc = "similarity", !.fileID = fileID,
                      !.similarity = Similarity(chk.c, preprocessText(chk.content),
                                                preprocessText(chk.otherContents[fileID]))]
    /\ UNCHANGED <<results, edges, clouds, nreq, req, gw, st>>

\* TextAnalyzer.GetNGrams(content, n) called on the raw text
CallGetNGrams ==
    /\ chk.pc = "idle"
    /\ IF GetNGramsPanics(chk.content, chk.c.NGramSize)
       THEN chk' = [chk EXCEPT !.pc = "panic-ngrams"]
       ELSE chk' = [chk EXCEPT !.pc = "ngrams",
                               !.ngrams = GetNGrams(chk.content, chk.c.NGramSize)]
    /\ UNCHANGED <<results, edges, clouds, nreq, req, gw, st>>

NextCheck ==
    \/ CallCheckPlagiarism
    \/ LoopStep
    \/ ReturnCheckPlagiarism
    \/ CallAgain
    \/ \E fileID \in CandidateIds : CallJaccard(fileID)
    \/ CallGetNGrams

SpecCheck == InitCheck /\ [][NextCheck]_vars

(***************************************************************************)
(* The text analyzer on its own, called with every short text.             *)
(***************************************************************************)
\* the longest text AnalyzeText is called with
MaxTextLen == 5

\* every text of at most n characters of an alphabet
Texts(chars, n) == UNION {[1..k -> chars] : k \in 0..n}

\* the texts AnalyzeText is called with: a letter, a two-byte letter, a space
\* and a newline, in every arrangement
AnalyzeTexts == Texts({"b", EACUTE, SP, NL}, MaxTextLen)

\* a text analyzer and the argument of the call to come
InitText ==
    /\ results = {}
    /\ edges = {}
    /\ clouds = {}
    /\ nreq = 0
    /\ gw = IdleGw
    /\ st = IdleSt
    /\ req = [r \in Reqs |-> IdleReq]
    /\ \E content \in AnalyzeTexts : chk = [IdleChk EXCEPT !.content = content]

\* TextAnalyzer.AnalyzeText(content)
CallAnalyzeText ==
    /\ chk.pc = "idle"
    /\ chk' = [chk EXCEPT !.pc = "analyzed", !.stats = AnalyzeText(chk.content)]
    /\ UNCHANGED <<results, edges, clouds, nreq, req, gw, st>>

NextText == CallAnalyzeText

SpecText == InitText /\ [][NextText]_vars

(***************************************************************************)
(* The plagiarism checker called with a text and a variant of it: the same *)
(* text with one character or one stop word put in, taken out or replaced. *)
(***************************************************************************)
\* the longest text a variant is made of
MaxEditLen == 3

\* the alphabet of these texts: a stop word, a letter in both cases, a
\* punctuation character and a space
EditChars == {"a", "b", "B", DOT, SP}

\* text t with the text w put in before place i
InsertAt(t, i, w) == SubSeq(t, 1, i - 1) \o w \o SubSeq(t, i, Len(t))

\* text t without the character at place i
DeleteAt(t, i) == SubSeq(t, 1, i - 1) \o SubSeq(t, i + 1, Len(t))

\* text t with the character at place i replaced by c
ReplaceAt(t, i, c) == [t EXCEPT ![i] = c]

\* the variants of a text
Variants(t) ==
    {InsertAt(t, i, <<c>>) : i \in 1..(Len(t) + 1), c \in EditChars}
    \union {InsertAt(t, i, <<"a", SP>>) : i \in 1..(Len(t) + 1)}
    \union {DeleteAt(t, i) : i \in 1..Len(t)}
    \union {ReplaceAt(t, i, c) : i \in 1..Len(t), c \in EditChars}

\* the checkers these calls are made with: every threshold, the default
\* window and the window of one word
EditCheckers == [SimilarityThreshold : Thresholds, NGramSize : {1, NGramSize}]

\* a checker, a text and one candidate, a variant of the text
InitEdit ==
    /\ results = {}
    /\ edges = {}
    /\ clouds = {}
    /\ nreq = 0
    /\ gw = IdleGw
    /\ st = IdleSt
    /\ req = [r \in Reqs |-> IdleReq]
    /\ \E c \in EditCheckers, content \in Texts(EditChars, MaxEditLen) :
          \E otherContent \in Variants(content) :
              chk = [IdleChk EXCEPT !.c = c, !.content = content,
                                    !.otherContents = [id \in {"f1"} |-> otherContent]]

NextEdit ==
    \/ CallCheckPlagiarism
    \/ LoopStep
    \/ ReturnCheckPlagiarism

SpecEdit == InitEdit /\ [][NextEdit]_vars

(***************************************************************************)
(* The API gateway: the analysis handler and the gRPC clients with their   *)
(* retry loop.                                                             *)
(***************************************************************************)
\* maxRetries := 3
maxRetries == 3
\* retryDelay := 1 * time.Second, in seconds
InitialRetryDelay == 1

\* the methods of FileStoringClient and FileAnalysisClient
ClientMethods == {"UploadFile", "GetFile", "AnalyzeFile", "GetWordCloud"}

\* what one attempt of an rpc comes back with: no error, a status error with
\* its code, or an error that is not a gRPC status
Codes == {"OK", "Unavailable", "DeadlineExceeded", "NotFound", "Internal", "not-a-status"}

\* every failed attempt is retried
RetryableAny(code) == TRUE

\* the negation of
\*   !ok || (s.Code() != codes.Unavailable && s.Code() != codes.DeadlineExceeded)
Retryable(code) ==
    code # "not-a-status" /\ (code = "Unavailable" \/ code = "DeadlineExceeded")

\* the JSON bodies POSTed to /api/v1/analysis: file_id absent, empty or set
Bodies ==
    {[hasFileId |-> FALSE, file_id |-> "", generate_word_cloud |-> g] : g \in BOOLEAN}
    \union [hasFileId : {TRUE}, file_id : {"", "d1", "d2"}, generate_word_cloud : BOOLEAN]

\* a binding that accepts every body
BindFailsNever(body) == FALSE

\* c.ShouldBindJSON(&request) returns an error: FileID is `binding:"required"`,
\* which rejects the zero value, whether the key was absent or set to ""
BindFails(body) ==
    LET FileID == IF body.hasFileId THEN body.file_id ELSE ""
    IN  FileID = ""

\* AnalysisHandler.AnalyzeFile up to the call of the client
HandleAnalyzeFile(body) ==
    /\ gw.pc = "idle"
    /\ IF BindFails(body)
       THEN gw' = [gw EXCEPT !.pc = "responded", !.handler = TRUE, !.body = body,
                             !.status = 400]
       ELSE gw' = [gw EXCEPT !.pc = "client", !.handler = TRUE, !.body = body,
                             !.method = "AnalyzeFile", !.attempt = 0,
                             !.retryDelay = InitialRetryDelay]
    /\ UNCHANGED <<results, edges, clouds, nreq, req, chk, st>>

\* a client method called by its own: the loop is entered
ClientCall(method) ==
    /\ gw.pc = "idle"
    /\ gw' = [gw EXCEPT !.pc = "client", !.method = method, !.attempt = 0,
                        !.retryDelay = InitialRetryDelay]
    /\ UNCHANGED <<results, edges, clouds, nreq, req, chk, st>>

\* one iteration of the retry loop: the rpc is sent and comes back with code
Attempt(code) ==
    /\ gw.pc = "client"
    /\ gw.attempt < maxRetries
    /\ LET sent == [gw EXCEPT !.rpcs = Append(@, [method |-> gw.method, code |-> code])]
       IN  IF code = "OK"
           THEN gw' = [sent EXCEPT !.pc = "returned", !.result = "ok"]
           ELSE IF ~Retryable(code)
           THEN gw' = [sent EXCEPT !.pc = "returned", !.result = "error"]
           ELSE IF gw.attempt = maxRetries - 1
           THEN gw' = [sent EXCEPT !.pc = "returned", !.result = "error"]
           ELSE gw' = [sent EXCEPT !.retryDelay = @ * 2, !.attempt = @ + 1]
    /\ UNCHANGED <<results, edges, clouds, nreq, req, chk, st>>

\* AnalysisHandler.AnalyzeFile after the client has returned
Respond ==
    /\ gw.pc = "returned"
    /\ gw.handler
    /\ gw' = [gw EXCEPT !.pc = "responded",
                        !.status = IF gw.result = "ok" THEN 200 ELSE 500]
    /\ UNCHANGED <<results, edges, clouds, nreq, req, chk, st>>

NextGateway ==
    \/ \E body \in Bodies : HandleAnalyzeFile(body)
    \/ \E method \in ClientMethods : ClientCall(method)
    \/ \E code \in Codes : Attempt(code)
    \/ Respond

\* every rpc comes back (each runs under a context with a timeout) and every
\* time.Sleep ends: the loop goes on to its next iteration
SpecGateway ==
    Init /\ [][NextGateway]_vars /\ WF_vars(\E code \in Codes : Attempt(code))

(***************************************************************************)
(* The File Storing Service: FileService.UploadFile over FileRepo and the  *)
(* local file storage.                                                     *)
(***************************************************************************)
\* uploads started in one behaviour
MaxUploads == 3

\* the contents uploaded
UploadContents == {<<"x">>, <<"y">>}

\* the file names uploaded under
UploadNames == {"a.txt", "b.txt"}

\* hex.EncodeToString(sha256.Sum256(content)): SHA-256 taken as collision
\* free on the model's contents, the digest of a content is the tagged content
Sum256Hex(content) == <<"sha256", content>>

\* uuid.New().String(): the n-th identifier generated, never one seen before
NewUUID(n) == <<"uuid-1", "uuid-2", "uuid-3", "uuid-4", "uuid-5", "uuid-6">>[n]

\* SELECT id FROM files WHERE hash = $1: the rows the query can return
RowsByHash(files, hash) == {f \in files : f.hash = hash}

\* the slot after a call of a collaborator has been made
UpLogged(q, op, res) == [q EXCEPT !.calls = Append(@, [op |-> op, res |-> res])]

\* UploadFile is entered and the hash of the content computed
StartUpload(u, fileName, content) ==
    /\ st.up[u].pc = "idle"
    /\ st.nup < MaxUploads
    /\ st' = [st EXCEPT !.nup = @ + 1,
                        !.up[u] = [IdleUp EXCEPT !.pc = "GetFileByHash",
                                                 !.fileName = fileName,
                                                 !.content = content,
                                                 !.hashStr = Sum256Hex(content)]]
    /\ UNCHANGED <<results, edges, clouds, nreq, req, chk, gw>>

\* the same, no other upload being under way
StartUploadSeq(u, fileName, content) ==
    /\ \A v \in Ups : st.up[v].pc = "idle"
    /\ StartUpload(u, fileName, content)

\* the lookup finds nothing even when a row is there
LookupBlind(files, hash) == {}

\* the rows s.repo.GetFileByHash chooses its answer from
Lookup(files, hash) == RowsByHash(files, hash)

\* s.repo.GetFileByHash and the two tests of its answer: an error fails the
\* upload, an id ends it, "" goes on with a new id
GetFileByHash(u) ==
    LET q == st.up[u] IN
    /\ q.pc = "GetFileByHash"
    /\ \/ st' = [st EXCEPT !.up[u] =
                     [UpLogged(q, "GetFileByHash", "fail")
                        EXCEPT !.pc = "failed", !.err = "failed to check file existence"]]
       \/ \E row \in Lookup(st.files, q.hashStr) :
              st' = [st EXCEPT !.up[u] =
                       [UpLogged(q, "GetFileByHash", "found")
                          EXCEPT !.pc = "done", !.fileID = row.id]]
       \/ /\ Lookup(st.files, q.hashStr) = {}
          /\ st' = [st EXCEPT !.uuids = @ + 1,
                              !.up[u] =
                                [UpLogged(q, "GetFileByHash", "none")
                                   EXCEPT !.pc = "StorageSaveFile",
                                          !.fileID = NewUUID(st.uuids + 1),
                                          !.location = NewUUID(st.uuids + 1)]]
    /\ UNCHANGED <<results, edges, clouds, nreq, req, chk, gw>>

\* s.storage.SaveFile(ctx, location, content): the file is written, or the
\* write fails (and may leave a file behind)
StorageSaveFile(u) ==
    LET q == st.up[u] IN
    /\ q.pc = "StorageSaveFile"
    /\ \/ st' = [st EXCEPT !.blobs = @ \union {<<q.location, q.content>>},
                            !.up[u] = [UpLogged(q, "storage.SaveFile", "ok")
                                         EXCEPT !.pc = "RepoSaveFile"]]
       \/ \E left \in {{}, {<<q.location, Empty>>}} :
              st' = [st EXCEPT !.blobs = @ \union left,
                              !.up[u] = [UpLogged(q, "storage.SaveFile", "fail")
                                           EXCEPT !.pc = "failed", !.fileID = "",
                                                  !.err = "failed to save file content"]]
    /\ UNCHANGED <<results, edges, clouds, nreq, req, chk, gw>>

\* s.repo.SaveFile: INSERT INTO files (id, name, hash, location, created_at)
RepoSaveFile(u) ==
    LET q == st.up[u] IN
    /\ q.pc = "RepoSaveFile"
    /\ \/ st' = [st EXCEPT !.files = @ \union {[id |-> q.fileID, name |-> q.fileName,
                                                hash |-> q.hashStr,
                                                location |-> q.location]},
                            !.up[u] = [UpLogged(q, "repo.SaveFile", "ok")
                                         EXCEPT !.pc = "done"]]
       \/ st' = [st EXCEPT !.up[u] = [UpLogged(q, "repo.SaveFile", "fail")
                                         EXCEPT !.pc = "failed", !.fileID = "",
                                                !.err = "failed to save file metadata"]]
    /\ UNCHANGED <<results, edges, clouds, nreq, req, chk, gw>>

\* UploadFile returns (fileID, nil) or ("", err); what it returned is kept
ReturnUpload(u) ==
    LET q == st.up[u] IN
    /\ q.pc \in {"done", "failed"}
    /\ st' = [st EXCEPT !.returned = Append(@, [content |-> q.content,
                                                fileID |-> q.fileID,
                                                err |-> q.err,
                                                calls |-> q.calls]),
                        !.up[u] = IdleUp]
    /\ UNCHANGED <<results, edges, clouds, nreq, req, chk, gw>>

\* uploads arrive at any time
NextUpload ==
    \E u \in Ups :
        \/ \E fileName \in UploadNames, content \in UploadContents :
              StartUpload(u, fileName, content)
        \/ GetFileByHash(u)
        \/ StorageSaveFile(u)
        \/ RepoSaveFile(u)
        \/ ReturnUpload(u)

SpecUpload == Init /\ [][NextUpload]_vars

\* the same service with its uploads made one after the other
NextUploadSeq ==
    \E u \in Ups :
        \/ \E fileName \in UploadNames, content \in UploadContents :
              StartUploadSeq(u, fileName, content)
        \/ GetFileByHash(u)
        \/ StorageSaveFile(u)
        \/ RepoSaveFile(u)
        \/ ReturnUpload(u)

SpecUploadSeq == Init /\ [][NextUploadSeq]_vars

(***************************************************************************)
(* What a request has done, read from the calls it has made.               *)
(***************************************************************************)
CallsOf(q, op) == {i \in 1..Len(q.calls) : q.calls[i].op = op}

Did(q, op) == CallsOf(q, op) # {}

DidWith(q, op, res) == \E i \in CallsOf(q, op) : q.calls[i].res = res

\* GetAnalysisResult gave the stored result
Hit(q) == Len(q.calls) >= 1 /\ q.calls[1].res = "ok"

\* GetAnalysisResult gave an error
Missed(q) == Len(q.calls) >= 1 /\ q.calls[1].res # "ok"

\* no call of the request has failed ("not found" is an answer, not a failure)
NoFault(q) == \A i \in 1..Len(q.calls) : q.calls[i].res # "fail"

LastCall(q) == q.calls[Len(q.calls)]

WriteOps == {"SaveAnalysisResult", "SaveSimilarFile", "SaveWordCloud"}

Stats(q) == <<q.paragraphCount, q.wordCount, q.characterCount>>

\* the error return: zero values and an error
ZeroReturn(q) ==
    /\ Stats(q) = <<0, 0, 0>>
    /\ ~q.isPlagiarism
    /\ q.similarFileIDs = <<>>
    /\ q.wordCloudLocation = Empty
    /\ q.err # Nil

\* the successful return of exactly what the row holds
ReturnsRow(q, row) ==
    /\ Stats(q) = <<row.paragraph_count, row.word_count, row.character_count>>
    /\ q.isPlagiarism = row.is_plagiarism
    /\ q.wordCloudLocation = row.word_cloud_location
    /\ q.err = Nil

\* after the lookup a request that got the stored result calls GetSimilarFiles
\* at most and nothing else
OnlyReadsEdges(q) == \A i \in 2..Len(q.calls) : q.calls[i].op = "GetSimilarFiles"

(***************************************************************************)
(* C1                                                                      *)
(***************************************************************************)
\* C1 as claimed: whenever GetAnalysisResult returns the stored result, the
\* request makes no fetch, listing, comparison, render or write, and it
\* returns exactly the stored counts, is_plagiarism and word_cloud_location.
C1_Original ==
    \A r \in Reqs :
        LET q == req[r] IN
        Hit(q) =>
            /\ OnlyReadsEdges(q)
            /\ q.pc \in {"done", "failed"} =>
                  /\ q.pc = "done"
                  /\ \E row \in RowsOf(results, q.fileID) : ReturnsRow(q, row)

\* C1 amended: whenever GetAnalysisResult returns the stored result, the
\* request makes no fetch, listing, comparison, render or write; it returns
\* exactly the stored counts, is_plagiarism and word_cloud_location, unless the
\* stored is_plagiarism is true and GetSimilarFiles fails: then it returns an
\* error with zero values.
C1_CacheHitFrame ==
    \A r \in Reqs :
        LET q == req[r] IN
        Hit(q) =>
            /\ OnlyReadsEdges(q)
            /\ q.pc \in {"FetchSimilar", "done", "failed"}
            /\ q.pc = "done" => \E row \in RowsOf(results, q.fileID) : ReturnsRow(q, row)
            /\ q.pc = "failed" =>
                  /\ LastCall(q) = Call("GetSimilarFiles", q.fileID, "fail")
                  /\ \E row \in RowsOf(results, q.fileID) : row.is_plagiarism
                  /\ ZeroReturn(q)

\* a request that asked for a word cloud has returned a stored plagiarism verdict
C1_Witness ==
    \E r \in Reqs :
        LET q == req[r] IN
        Hit(q) /\ q.pc = "done" /\ q.generateWordCloud /\ q.isPlagiarism

(***************************************************************************)
(* C2                                                                      *)
(***************************************************************************)
\* the step is a successful SaveAnalysisResult of request r
SavesNow(r) ==
    req'[r].calls = Append(req[r].calls, Call("SaveAnalysisResult", req[r].fileID, "ok"))

\* C2 as claimed: once a result for an id is stored there is no second
\* SaveAnalysisResult for that id.
C2_Original ==
    [][\A r \in Reqs : SavesNow(r) => RowsOf(results, req[r].fileID) = {}]_vars

\* C2 amended: a request whose GetAnalysisResult returned the stored result
\* neither compares nor saves; only a request whose own lookup returned an
\* error (no row yet, or a failed query) computes and saves, so a second save
\* of an id comes only from such a request.
C2_NoRecomputeAfterHit ==
    \A r \in Reqs :
        LET q == req[r] IN
        /\ (Did(q, "GetFile") \/ Did(q, "GetAllFileIDs") \/ Did(q, "CheckPlagiarism")
                \/ Did(q, "SaveAnalysisResult")) => Missed(q)
        /\ Hit(q) => q.pc \in {"FetchSimilar", "done", "failed"}

\* two requests for one id have both saved its result
C2_Witness ==
    \E r1, r2 \in Reqs :
        /\ r1 # r2
        /\ req[r1].fileID = req[r2].fileID
        /\ DidWith(req[r1], "SaveAnalysisResult", "ok")
        /\ DidWith(req[r2], "SaveAnalysisResult", "ok")

(***************************************************************************)
(* C3                                                                      *)
(***************************************************************************)
\* a and b are two calls AnalyzeFile(id, false), a before b, that have both
\* returned without error
InSequence(a, b) ==
    /\ 0 < a.serial /\ a.serial < b.serial
    /\ a.fileID = b.fileID
    /\ ~a.generateWordCloud /\ ~b.generateWordCloud
    /\ a.pc = "done" /\ b.pc = "done"

\* C3: two calls AnalyzeFile(id, false) in sequence return the same counts; the
\* first, when nothing is stored, lists the corpus once and compares once; the
\* second, its lookup answered, is served from the stored result and neither
\* lists nor compares.
C3_Idempotent ==
    \A r1, r2 \in Reqs :
        LET a == req[r1]
            b == req[r2]
        IN  InSequence(a, b) =>
                /\ Stats(a) = Stats(b)
                /\ Stats(a) = <<AnalyzeText(Files[a.fileID]).paragraphCount,
                                AnalyzeText(Files[a.fileID]).wordCount,
                                AnalyzeText(Files[a.fileID]).characterCount>>
                /\ Missed(a) =>
                      /\ Cardinality(CallsOf(a, "GetAllFileIDs")) = 1
                      /\ Cardinality(CallsOf(a, "CheckPlagiarism")) = 1
                /\ b.calls[1].res # "fail" =>
                      /\ Hit(b)
                      /\ ~Did(b, "GetAllFileIDs")
                      /\ ~Did(b, "CheckPlagiarism")

\* the two calls have been made, the first against a corpus that is not empty
C3_Witness ==
    \E r1, r2 \in Reqs :
        /\ InSequence(req[r1], req[r2])
        /\ req[r1].calls[1].res = "notfound"
        /\ NoFault(req[r1]) /\ NoFault(req[r2])
        /\ Len(req[r1].otherFileIDs) > 0

C5_SaveBeforeEdges ==
    \A r \in Reqs :
        LET q == req[r] IN
        /\ \A i \in CallsOf(q, "SaveSimilarFile") :
              \E j \in 1..(i - 1) : q.calls[j] = Call("SaveAnalysisResult", q.fileID, "ok")
        /\ DidWith(q, "SaveAnalysisResult", "fail") =>
              /\ q.pc = "failed"
              /\ q.err = "failed to save analysis results"
              /\ ZeroReturn(q)
              /\ LastCall(q) = Call("SaveAnalysisResult", q.fileID, "fail")
              /\ ~Did(q, "SaveSimilarFile")
              /\ q.calls[1].res = "notfound" => SimilarOf(edges, q.fileID) = {}

\* the save has failed for a request whose comparison had found a match
C5_Witness ==
    \E r \in Reqs :
        LET q == req[r] IN
        /\ DidWith(q, "SaveAnalysisResult", "fail")
        /\ SimilarSet(q.content, q.otherContents) # {}

(***************************************************************************)
(* C6                                                                      *)
(***************************************************************************)
\* the corpus documents the request has fetched, and those it could not fetch
FetchedOk(q) ==
    {q.calls[i].arg : i \in {j \in CallsOf(q, "GetFile") :
                                q.calls[j].arg # q.fileID /\ q.calls[j].res = "ok"}}

FetchFailed(q) ==
    {q.calls[i].arg : i \in {j \in CallsOf(q, "GetFile") :
                                q.calls[j].arg # q.fileID /\ q.calls[j].res = "fail"}}

\* the ids the request has handed to SaveSimilarFile, in the order of the calls
EdgeCalls(q) == SelectSeq(q.calls, LAMBDA c : c.op = "SaveSimilarFile")

EdgeArgs(q) == {EdgeCalls(q)[i].arg : i \in 1..Len(EdgeCalls(q))}

\* the documents that match the target among those fetched
MatchesAmong(q, ids) == SimilarSet(Files[q.fileID], [d \in ids |-> Files[d]])

\* C6: a corpus document whose GetFile fails does not fail the request (a
\* failed request never ends on a corpus fetch); the comparison runs over
\* exactly the listed documents that were fetched, so a failed document is in
\* neither the returned nor the written similar ids and every fetched one is
\* compared.
C6_PartialFailure ==
    \A r \in Reqs :
        LET q == req[r] IN
        /\ q.pc = "failed" /\ LastCall(q).op = "GetFile" => LastCall(q).arg = q.fileID
        /\ Did(q, "CheckPlagiarism") =>
              /\ FetchedOk(q) \cup FetchFailed(q) = Range(q.otherFileIDs) \ {q.fileID}
              /\ FetchedOk(q) \cap FetchFailed(q) = {}
              /\ DOMAIN q.otherContents = FetchedOk(q)
              /\ EdgeArgs(q) \cap FetchFailed(q) = {}
              /\ q.pc # "failed" =>
                    /\ Range(q.similarFileIDs) = MatchesAmong(q, FetchedOk(q))
                    /\ q.isPlagiarism = (MatchesAmong(q, FetchedOk(q)) # {})

\* a request has returned a match after one corpus document could not be
\* fetched and another could
C6_Witness ==
    \E r \in Reqs :
        LET q == req[r] IN
        /\ q.pc = "done"
        /\ FetchFailed(q) # {}
        /\ FetchedOk(q) # {}
        /\ Len(q.similarFileIDs) > 0
        /\ MatchesAmong(q, FetchFailed(q)) # {}

(***************************************************************************)
(* C7                                                                      *)
(***************************************************************************)
WordCloudFailed(q) ==
    DidWith(q, "GenerateWordCloud", "fail") \/ DidWith(q, "SaveWordCloud", "fail")

\* C7: when the render or the save of the image fails the request goes on
\* with an empty word cloud location: it fails only if SaveAnalysisResult
\* fails, and otherwise the row is stored and returned with the empty
\* location.  A request stores a location that is not empty only after its
\* render and its image save have both succeeded.
C7_WordCloudNonFatal ==
    \A r \in Reqs :
        LET q == req[r] IN
        /\ WordCloudFailed(q) =>
              /\ q.generateWordCloud
              /\ q.wordCloudLocation = Empty
              /\ q.pc \in {"PersistResult", "PersistEdges", "done", "failed"}
              /\ q.pc = "failed" => LastCall(q) = Call("SaveAnalysisResult", q.fileID, "fail")
              /\ q.pc \in {"PersistEdges", "done"} =>
                    /\ q.err = Nil
                    /\ ResultRow(q) \in results
                    /\ Stats(q) = <<AnalyzeText(Files[q.fileID]).paragraphCount,
                                    AnalyzeText(Files[q.fileID]).wordCount,
                                    AnalyzeText(Files[q.fileID]).characterCount>>
        /\ (DidWith(q, "SaveAnalysisResult", "ok") /\ q.wordCloudLocation # Empty) =>
              /\ DidWith(q, "GenerateWordCloud", "ok")
              /\ DidWith(q, "SaveWordCloud", "ok")
              /\ q.wordCloudLocation \in clouds

\* a request has returned its result after the image could not be saved
C7_Witness ==
    \E r \in Reqs :
        LET q == req[r] IN
        /\ q.pc = "done"
        /\ DidWith(q, "SaveWordCloud", "fail")
        /\ ResultRow(q) \in results

(***************************************************************************)
(* C8                                                                      *)
(***************************************************************************)
\* C8: a request that found a match calls SaveSimilarFile once for each
\* similar id, in turn, whatever the earlier calls returned; an edge written
\* stays written; the request returns without error, with the verdict it
\* computed.
C8_EdgesBestEffort ==
    \A r \in Reqs :
        LET q == req[r]
            ec == EdgeCalls(q)
        IN
        Did(q, "SaveSimilarFile") =>
            /\ q.pc \in {"PersistEdges", "done"}
            /\ q.err = Nil
            /\ q.isPlagiarism
            /\ Range(q.similarFileIDs) = MatchesAmong(q, FetchedOk(q))
            /\ Len(ec) <= Len(q.similarFileIDs)
            /\ \A i \in 1..Len(ec) : ec[i].arg = q.similarFileIDs[i]
            /\ q.pc = "done" => Len(ec) = Len(q.similarFileIDs)
            /\ q.pc = "PersistEdges" => Len(ec) = q.i - 1
            /\ \A i \in 1..Len(ec) : ec[i].res = "ok" => <<q.fileID, ec[i].arg>> \in edges

\* a request with two matches has returned; its first edge write failed and
\* its second was made
C8_Witness ==
    \E r \in Reqs :
        LET q == req[r]
            ec == EdgeCalls(q)
        IN
        /\ q.pc = "done"
        /\ Len(ec) = 2
        /\ ec[1].res = "fail"
        /\ ec[2].res = "ok"

(***************************************************************************)
(* C9                                                                      *)
(***************************************************************************)
\* the first GetFile of the request, the one for the target, has failed
TargetFetchFailed(q) ==
    Len(q.calls) >= 2 /\ q.calls[2] = Call("GetFile", q.fileID, "fail")

\* C9: when nothing is stored and GetFile for the target fails the request
\* returns the error "failed to get file content" with zero values, having
\* made no other call: no listing, no corpus fetch, no render, no write.
C9_TargetFailure ==
    \A r \in Reqs :
        LET q == req[r] IN
        TargetFetchFailed(q) =>
            /\ q.pc = "failed"
            /\ q.err = "failed to get file content"
            /\ ZeroReturn(q)
            /\ Len(q.calls) = 2
            /\ q.calls[1].res = "notfound" =>
                  /\ RowsOf(results, q.fileID) = {}
                  /\ SimilarOf(edges, q.fileID) = {}

\* the target could not be fetched while other documents are stored
C9_Witness ==
    \E r \in Reqs :
        LET q == req[r] IN
        /\ TargetFetchFailed(q)
        /\ q.calls[1].res = "notfound"
        /\ results # {}

(***************************************************************************)
(* C10                                                                     *)
(***************************************************************************)
\* C10: the target is never fetched as a corpus document nor compared with
\* itself, also when GetAllFileIDs lists it: it is not among its own similar
\* ids, it is never handed to SaveSimilarFile, and no edge (id, id) is stored.
C10_SelfExclusion ==
    /\ \A e \in edges : e[1] # e[2]
    /\ \A r \in Reqs :
          LET q == req[r] IN
          /\ q.fileID \notin DOMAIN q.otherContents
          /\ q.fileID \notin Range(q.similarFileIDs)
          /\ q.fileID \notin EdgeArgs(q)
          /\ Cardinality({i \in CallsOf(q, "GetFile") : q.calls[i].arg = q.fileID})
                <= (IF q.generateWordCloud THEN 2 ELSE 1)

\* a request has returned a match from a corpus that listed its own id
C10_Witness ==
    \E r \in Reqs :
        LET q == req[r] IN
        /\ q.pc = "done"
        /\ Did(q, "CheckPlagiarism")
        /\ q.fileID \in Range(q.otherFileIDs)
        /\ Len(q.similarFileIDs) > 0

(***************************************************************************)
(* C11                                                                     *)
(***************************************************************************)
\* C11: analysis_results holds at most one row for a file id, whatever
\* requests, repeated or concurrent, have saved results for it.
C11_OneRowPerId ==
    \A id \in DocIds : Cardinality(RowsOf(results, id)) <= 1

\* two requests for one id have saved different rows; the one stored is the
\* row of one of them
C11_Witness ==
    \E r1, r2 \in Reqs :
        /\ r1 # r2
        /\ req[r1].fileID = req[r2].fileID
        /\ req[r1].pc = "done" /\ req[r2].pc = "done"
        /\ DidWith(req[r1], "SaveAnalysisResult", "ok")
        /\ DidWith(req[r2], "SaveAnalysisResult", "ok")
        /\ ResultRow(req[r1]) # ResultRow(req[r2])
        /\ RowsOf(results, req[r1].fileID) = {ResultRow(req[r2])}

(***************************************************************************)
(* C12                                                                     *)
(***************************************************************************)
\* C12 as claimed: every stored edge (d, s) goes with a stored row for d whose
\* is_plagiarism is true.
C12_Original ==
    \A e \in edges : \E row \in RowsOf(results, e[1]) : row.is_plagiarism

\* request r writes the edge e in this step: its SaveSimilarFile succeeds
WritesEdge(r, e) ==
    /\ req[r].pc = "PersistEdges"
    /\ req[r].fileID = e[1]
    /\ req'[r].calls = Append(req[r].calls, Call("SaveSimilarFile", e[2], "ok"))

\* C12 amended: an edge (d, s) is written only by a request for d whose own
\* verdict is plagiarism with s among its similar ids, and only after that
\* request's SaveAnalysisResult has succeeded; so every stored edge (d, s) goes
\* with a stored row for d (whose is_plagiarism another request for d may have
\* overwritten since).
C12_EdgesFromVerdicts ==
    [][/\ \A e \in edges : RowsOf(results, e[1]) # {}
       /\ \A e \in edges' \ edges :
             \E r \in Reqs :
                 /\ WritesEdge(r, e)
                 /\ req[r].isPlagiarism
                 /\ e[2] \in Range(req[r].similarFileIDs)
                 /\ DidWith(req[r], "SaveAnalysisResult", "ok")
                 /\ RowsOf(results, e[1]) # {}]_vars

\* an edge is stored for a request that could not fetch one of the corpus
\* documents, and the row of its id says plagiarism
C12_Witness ==
    \E r \in Reqs :
        LET q == req[r] IN
        /\ q.pc = "done"
        /\ FetchFailed(q) # {}
        /\ \E s \in DocIds : <<q.fileID, s>> \in edges /\ s \in EdgeArgs(q)
        /\ \E row \in RowsOf(results, q.fileID) : row.is_plagiarism

(***************************************************************************)
(* C13                                                                     *)
(***************************************************************************)
\* request r has still to read the list of file ids
BeforeListing(q) == q.pc \in {"CheckCache", "FetchTarget", "ListCorpus"}

\* C13: two requests for different ids are independent: no step of one
\* changes what the other, still running, is going to read: its own row, its
\* own edges, and the list of file ids it compares against.
C13_Independent ==
    [][\A r1, r2 \in Reqs :
          (/\ r1 # r2
           /\ req[r1].fileID # req[r2].fileID
           /\ BeforeListing(req[r1])
           /\ req[r2].pc \notin {"idle", "done", "failed"}
           /\ req'[r1] = req[r1])
          => /\ RowsOf(results', req[r1].fileID) = RowsOf(results, req[r1].fileID)
             /\ SimilarOf(edges', req[r1].fileID) = SimilarOf(edges, req[r1].fileID)
             /\ AllFileIDs(results') \ {req[r1].fileID} = AllFileIDs(results) \ {req[r1].fileID}]_vars

(***************************************************************************)
(* C14                                                                     *)
(***************************************************************************)
\* C14: once ctx is cancelled while the request waits for a content fetch or
\* for the render, the request does not return success, no analysis result is
\* written, and the request comes to return an error.
C14_Cancellation ==
    /\ [](\A r \in Reqs : req[r].ctxDone => req[r].pc # "done")
    /\ [][\A r \in Reqs : req[r].ctxDone => results' = results]_vars
    /\ \A r \in Reqs :
          req[r].ctxDone ~> (req[r].pc = "failed" /\ req[r].err # Nil /\ ZeroReturn(req[r]))

\* a request cancelled during a corpus fetch went on to SaveAnalysisResult,
\* which returned the ctx error
C14_Witness ==
    \E r \in Reqs :
        LET q == req[r] IN
        /\ q.ctxDone
        /\ q.pc = "failed"
        /\ LastCall(q) = Call("SaveAnalysisResult", q.fileID, "fail")
        /\ FetchFailed(q) # {}

(***************************************************************************)
(* What a call of the checker has returned.                                *)
(***************************************************************************)
\* the candidate is one CheckPlagiarism's loop appends
Matches(c, content, otherContent) ==
    LoopBody(c, <<>>, "candidate", content, otherContent) # <<>>

\* the two texts have the same normalized text
SameNormalized(content, otherContent) ==
    preprocessText(content) = preprocessText(otherContent)

\* the windows of n consecutive significant words of a text, as a set of
\* word tuples
Windows(text, n) ==
    LET tokens == GetSignificantWords(text)
    IN  {SubSeq(tokens, i, i + n - 1) : i \in 1..(Len(tokens) - n + 1)}

\* the Jaccard similarity of two texts' window sets: intersection over union,
\* 0 when both are empty
Jaccard(content, otherContent, n) ==
    LET A == Windows(content, n)
        B == Windows(otherContent, n)
    IN  IF A \union B = {} THEN <<0, 1>>
        ELSE <<Cardinality(A \intersect B), Cardinality(A \union B)>>

\* C15: when CheckPlagiarism returns, similarFileIDs holds exactly the keys of
\* otherContents whose candidate matches, each once and none from outside the
\* map; isPlagiarism is true exactly when that list is not empty; with an
\* empty map the call returns (false, empty).
C15_CompareResult ==
    chk.pc = "returned" =>
        /\ \A i, j \in 1..Len(chk.similarFileIDs) :
              chk.similarFileIDs[i] = chk.similarFileIDs[j] => i = j
        /\ Range(chk.similarFileIDs) \subseteq DOMAIN chk.otherContents
        /\ Range(chk.similarFileIDs) =
              {id \in DOMAIN chk.otherContents :
                   Matches(chk.c, chk.content, chk.otherContents[id])}
        /\ chk.isPlagiarism <=> chk.similarFileIDs # <<>>
        /\ chk.otherContents = EmptyMap =>
              ~chk.isPlagiarism /\ chk.similarFileIDs = <<>>

\* a call returned with one of two candidates, the one whose normalized text
\* is the target's and whose similarity passes the threshold as well
C15_Witness ==
    /\ chk.pc = "returned"
    /\ chk.isPlagiarism
    /\ DOMAIN chk.otherContents = CandidateIds
    /\ chk.similarFileIDs = <<"f2">>
    /\ SameNormalized(chk.content, chk.otherContents["f2"])
    /\ Len(GetSignificantWords(chk.content)) >= chk.c.NGramSize
    /\ ~Matches(chk.c, chk.content, chk.otherContents["f1"])

C17_ExactMatchAnyTuning ==
    (chk.pc = "returned" /\ chk.c.NGramSize >= 0) =>
        \A id \in DOMAIN chk.otherContents :
            SameNormalized(chk.content, chk.otherContents[id]) =>
                id \in Range(chk.similarFileIDs)

\* a checker with a threshold above 1 and a window larger than the texts
\* returned a candidate that normalizes, as the target does, to the empty text
C17_Witness ==
    /\ chk.pc = "returned"
    /\ chk.c.SimilarityThreshold[1] > chk.c.SimilarityThreshold[2]
    /\ chk.c.NGramSize > Len(GetSignificantWords(chk.content))
    /\ preprocessText(chk.content) = Empty
    /\ \E id \in Range(chk.similarFileIDs) : chk.otherContents[id] # chk.content

\* C18: two calls of the same checker with the same target and the same map,
\* the map ranged over in whatever two orders, return the same isPlagiarism
\* and the same set of ids.
C18_OrderIndependent ==
    (chk.pc = "returned" /\ chk.first # <<>>) =>
        /\ Range(chk.first[1].similarFileIDs) = Range(chk.similarFileIDs)
        /\ chk.first[1].isPlagiarism = chk.isPlagiarism

\* the second call ranged over the map in the other order and returned the
\* same two ids, listed the other way round
C18_Witness ==
    /\ chk.pc = "returned"
    /\ chk.first # <<>>
    /\ chk.first[1].order # chk.order
    /\ Len(chk.similarFileIDs) = 2
    /\ chk.first[1].similarFileIDs # chk.similarFileIDs

\* C19 as stated: the Jaccard similarity of a document's n-gram set with that
\* same set is 1.0, for every document.
C19_Original ==
    (chk.pc = "similarity" /\ chk.otherContents[chk.fileID] = chk.content) =>
        chk.similarity[1] = chk.similarity[2]

\* C19: the Jaccard similarity of a document's n-gram set with that same set
\* is 1.0 when the normalized text has at least n words, and 0 when it has
\* fewer (the set is then empty, and the union of two empty sets gives 0).
C19_SelfSimilarity ==
    (chk.pc = "similarity" /\ chk.otherContents[chk.fileID] = chk.content) =>
        IF Len(GetSignificantWords(chk.content)) >= chk.c.NGramSize
        THEN chk.similarity[1] = chk.similarity[2] /\ chk.similarity[2] > 0
        ELSE chk.similarity = <<0, 1>>

\* a document with several n-grams was compared with itself
C19_Witness ==
    /\ chk.pc = "similarity"
    /\ chk.otherContents[chk.fileID] = chk.content
    /\ chk.c.NGramSize > 0
    /\ chk.similarity[2] > 1
    /\ chk.similarity[1] = chk.similarity[2]

\* C20 as stated: for every text and every integer n, GetNGrams returns the
\* empty sequence when the text has fewer than n whitespace tokens, and
\* otherwise tokenCount - n + 1 entries, the i-th being tokens i .. i+n-1
\* joined by single spaces; the call never fails.
C20_Original ==
    chk.pc \in {"ngrams", "panic-ngrams"} =>
        LET tokens == Fields(chk.content)
            n == chk.c.NGramSize
        IN  /\ chk.pc = "ngrams"
            /\ IF Len(tokens) < n
               THEN chk.ngrams = <<>>
               ELSE /\ Len(chk.ngrams) = Len(tokens) - n + 1
                    /\ \A i \in 1..Len(chk.ngrams) :
                          chk.ngrams[i] = Join(SubSeq(tokens, i, i + n - 1))

(***************************************************************************)
(* What a call of the text analyzer has returned.                          *)
(***************************************************************************)
\* the places where a "\n\n" separator of strings.Split starts: every second
\* newline of a run of newlines, from the run's first
SeparatorStarts(s) ==
    {i \in 1..(Len(s) - 1) :
        /\ s[i] = NL /\ s[i + 1] = NL
        /\ LET runStart == CHOOSE j \in 1..i :
                              /\ \A k \in j..i : s[k] = NL
                              /\ j = 1 \/ s[j - 1] # NL
           IN  (i - runStart) % 2 = 0}

\* the places where a whitespace-delimited token starts
TokenStarts(s) ==
    {i \in 1..Len(s) : ~IsSpace(s[i]) /\ (i = 1 \/ IsSpace(s[i - 1]))}

\* the places of the first non-blank character of each segment that has one
NonBlankSegmentStarts(s) ==
    {i \in 1..Len(s) :
        /\ ~IsSpace(s[i])
        /\ \A j \in 1..(i - 1) :
              ~IsSpace(s[j]) => \E k \in SeparatorStarts(s) : j < k /\ k < i}

\* C21: AnalyzeText returns (0,0,0) for the empty text and, for every text,
\* characterCount = the length of the input in bytes, whitespace included,
\* wordCount = the number of whitespace-delimited tokens, paragraphCount =
\* the number of non-blank segments between "\n\n" separators; so
\* paragraphCount is at most the number of segments and no count is negative.
C21_AnalyzeCounts ==
    chk.pc = "analyzed" =>
        /\ chk.content = Empty =>
              chk.stats = [paragraphCount |-> 0, wordCount |-> 0, characterCount |-> 0]
        /\ chk.stats.characterCount =
              Len(chk.content) + Cardinality({i \in 1..Len(chk.content) : chk.content[i] = EACUTE})
        /\ chk.stats.wordCount = Cardinality(TokenStarts(chk.content))
        /\ chk.stats.paragraphCount = Cardinality(NonBlankSegmentStarts(chk.content))
        /\ chk.stats.paragraphCount <= Cardinality(SeparatorStarts(chk.content)) + 1
        /\ chk.stats.paragraphCount >= 0
        /\ chk.stats.wordCount >= 0
        /\ chk.stats.characterCount >= 0

\* a text of three segments, one of them non-blank, was analyzed: one
\* paragraph, one word, and more bytes than characters
C21_Witness ==
    /\ chk.pc = "analyzed"
    /\ Cardinality(SeparatorStarts(chk.content)) = 2
    /\ chk.stats.paragraphCount = 1
    /\ chk.stats.wordCount = 1
    /\ chk.stats.characterCount > Len(chk.content)

(***************************************************************************)
(* What the gateway has done.                                              *)
(***************************************************************************)
\* the codes of the attempts made so far
AttemptCodes == [i \in 1..Len(gw.rpcs) |-> gw.rpcs[i].code]

\* C22: a call of a gateway client makes at most 3 attempts; every attempt
\* but the last made follows one that failed with Unavailable or
\* DeadlineExceeded; the call returns the response of the first attempt that
\* succeeds, an error after one attempt that fails otherwise, an error after
\* the third retryable failure; and every call returns.
C22_BoundedRetry ==
    /\ [](/\ Len(gw.rpcs) <= 3
          /\ \A i \in 1..(Len(gw.rpcs) - 1) :
                AttemptCodes[i] \in {"Unavailable", "DeadlineExceeded"}
          /\ gw.pc = "client" =>
                \A i \in 1..Len(gw.rpcs) :
                    AttemptCodes[i] \in {"Unavailable", "DeadlineExceeded"}
          /\ gw.pc = "returned" =>
                /\ gw.rpcs # <<>>
                /\ LET last == AttemptCodes[Len(gw.rpcs)]
                   IN  /\ gw.result = "ok" <=> last = "OK"
                       /\ gw.result = "error" <=> last # "OK"
                       /\ last \in {"Unavailable", "DeadlineExceeded"} => Len(gw.rpcs) = 3)
    /\ (gw.pc = "client") ~> (gw.pc = "returned")

\* a call returned the response of its second attempt, the first having
\* failed with Unavailable
C22_Witness ==
    /\ gw.pc = "returned"
    /\ gw.result = "ok"
    /\ AttemptCodes = <<"Unavailable", "OK">>

\* C24: a POST to /api/v1/analysis whose file_id is absent or empty is answered
\* with 400 and the analysis client is not called: no rpc is sent for it.
C24_InvalidRejected ==
    (gw.handler /\ (~gw.body.hasFileId \/ gw.body.file_id = "")) =>
        /\ gw.pc = "responded"
        /\ gw.status = 400
        /\ gw.rpcs = <<>>

\* a request without a file_id has been answered
C24_Witness ==
    /\ gw.handler
    /\ ~gw.body.hasFileId
    /\ gw.pc = "responded"
    /\ gw.status = 400

(***************************************************************************)
(* What the File Storing Service has done.                                 *)
(***************************************************************************)
\* the uploads so far, returned or under way, with the calls each has made
Uploads ==
    {st.returned[i] : i \in 1..Len(st.returned)} \union
    {[content |-> st.up[u].content, fileID |-> st.up[u].fileID, err |-> st.up[u].err,
      calls |-> st.up[u].calls] : u \in {v \in Ups : st.up[v].pc # "idle"}}

\* C23: an upload whose content hash is already recorded returns the id
\* recorded with it and calls neither storage.SaveFile nor repo.SaveFile; an
\* upload whose hash lookup fails calls neither; and of uploads made one
\* after the other, those of the same bytes that succeed return the same id
\* and leave one row of table files for that hash.
C23_UploadDedup ==
    /\ \A up \in Uploads :
          (up.calls # <<>> /\ up.calls[1].res = "found") =>
              /\ up.calls = <<[op |-> "GetFileByHash", res |-> "found"]>>
              /\ up.err = Nil
              /\ \E f \in st.files : f.id = up.fileID /\ f.hash = Sum256Hex(up.content)
    /\ \A up \in Uploads :
          (up.calls # <<>> /\ up.calls[1].res = "fail") =>
              /\ up.calls = <<[op |-> "GetFileByHash", res |-> "fail"]>>
              /\ up.err # Nil
              /\ up.fileID = ""
    /\ \A i, j \in 1..Len(st.returned) :
          (/\ st.returned[i].content = st.returned[j].content
           /\ st.returned[i].err = Nil
           /\ st.returned[j].err = Nil) =>
              /\ st.returned[i].fileID = st.returned[j].fileID
              /\ Cardinality(RowsByHash(st.files, Sum256Hex(st.returned[i].content))) = 1

\* the same bytes were uploaded twice, under two names: the second upload
\* found the hash and returned the first one's id
C23_Witness ==
    /\ Len(st.returned) = 2
    /\ st.returned[1].content = st.returned[2].content
    /\ st.returned[1].err = Nil
    /\ st.returned[2].calls = <<[op |-> "GetFileByHash", res |-> "found"]>>
    /\ st.returned[2].fileID = st.returned[1].fileID
    /\ Cardinality(st.files) = 1
    /\ Cardinality(st.blobs) = 1

\* C30 as stated: whatever the interleaving of concurrent uploads of the same
\* content, table files never holds two rows with one hash, and the uploads
\* that return an id return the same one.
C30_Original ==
    /\ \A f, g \in st.files : f.hash = g.hash => f.id = g.id
    /\ \A i, j \in 1..Len(st.returned) :
          (/\ st.returned[i].content = st.returned[j].content
           /\ st.returned[i].err = Nil
           /\ st.returned[j].err = Nil) =>
              st.returned[i].fileID = st.returned[j].fileID

(***************************************************************************)
(* C25, C26, C28, C29                                                      *)
(***************************************************************************)
\* C25 as stated: once GetAllFileIDs has succeeded a request fails only when
\* SaveAnalysisResult fails: no step of the word cloud stage, the GetFile of
\* the target's text for it included, makes the request fail.
C25_Original ==
    \A r \in Reqs :
        LET q == req[r] IN
        (q.pc = "failed" /\ DidWith(q, "GetAllFileIDs", "ok")) =>
            LastCall(q) = Call("SaveAnalysisResult", q.fileID, "fail")

\* C26: when GetAnalysisResult returns a stored row and GetSimilarFiles then
\* fails, the request returns an error with zero values and has made these two
\* calls only; GetSimilarFiles is called on a hit only when the stored
\* is_plagiarism is true; a hit with is_plagiarism false returns after the
\* lookup alone, with no similar ids.
C26_HitEdgesFailure ==
    \A r \in Reqs :
        LET q == req[r] IN
        Hit(q) =>
            /\ DidWith(q, "GetSimilarFiles", "fail") =>
                  /\ q.pc = "failed"
                  /\ ZeroReturn(q)
                  /\ q.err = "failed to get similar files"
                  /\ Len(q.calls) = 2
            /\ Did(q, "GetSimilarFiles") =>
                  \E row \in RowsOf(results, q.fileID) : row.is_plagiarism
            /\ (q.pc = "done" /\ ~q.isPlagiarism) =>
                  /\ Len(q.calls) = 1
                  /\ q.similarFileIDs = <<>>
                  /\ \E row \in RowsOf(results, q.fileID) : ~row.is_plagiarism

\* a request found a stored row with is_plagiarism and edges, and failed on
\* GetSimilarFiles
C26_Witness ==
    \E r \in Reqs :
        LET q == req[r] IN
        /\ Hit(q)
        /\ q.pc = "failed"
        /\ LastCall(q) = Call("GetSimilarFiles", q.fileID, "fail")
        /\ SimilarOf(edges, q.fileID) # {}

\* request r takes the step
Acts(r) == req'[r] # req[r]

\* C28: a step of a request for d changes no row but d's and adds no edge but
\* (d, s) with s another document: never the reverse edge (s, d); no edge is
\* ever removed; the row and the edges of a document no request for which
\* takes the step stay as they are.
C28_WriteFrame ==
    [][/\ edges \subseteq edges'
       /\ \A e \in edges' \ edges :
             /\ e[1] # e[2]
             /\ \E r \in Reqs : Acts(r) /\ WritesEdge(r, e)
       /\ \A row \in (results' \ results) \cup (results \ results') :
             \E r \in Reqs : Acts(r) /\ req[r].fileID = row.file_id /\ SavesNow(r)
       /\ \A d \in DocIds :
             (\A r \in Reqs : Acts(r) => req[r].fileID # d) =>
                 /\ RowsOf(results', d) = RowsOf(results, d)
                 /\ SimilarOf(edges', d) = SimilarOf(edges, d)]_vars

\* a request for d has stored its row and its edge (d, s) next to the row of
\* s: the reverse edge is not there
C28_Witness ==
    \E r \in Reqs :
        LET q == req[r] IN
        /\ q.pc = "done"
        /\ DidWith(q, "SaveSimilarFile", "ok")
        /\ \E s \in DocIds :
              /\ <<q.fileID, s>> \in edges
              /\ <<s, q.fileID>> \notin edges
              /\ RowsOf(results, s) # {}
              /\ RowsOf(results, q.fileID) # {}

\* request b is the next one after request a, for the same document
Consecutive(a, b) ==
    /\ 0 < a.serial /\ b.serial = a.serial + 1
    /\ a.fileID = b.fileID

\* C29 as stated: a request served from the stored result returns the
\* is_plagiarism and the set of similar ids that the request which computed
\* and stored the result returned; with is_plagiarism true the set is not
\* empty.
C29_Original ==
    \A r1, r2 \in Reqs :
        LET a == req[r1]
            b == req[r2]
        IN  (/\ Consecutive(a, b)
             /\ a.pc = "done" /\ Missed(a)
             /\ b.pc = "done" /\ Hit(b)) =>
                /\ b.isPlagiarism = a.isPlagiarism
                /\ Range(b.similarFileIDs) = Range(a.similarFileIDs)
                /\ b.isPlagiarism => b.similarFileIDs # <<>>

(***************************************************************************)
(* C27                                                                     *)
(***************************************************************************)
\* whitespace or punctuation
IsSeparator(c) == IsSpace(c) \/ IsPunct(c)

\* t2 is t1 with the case of one letter changed
CaseChanged(t1, t2) ==
    \E i \in 1..Len(t1) :
        \E c \in EditChars :
            /\ c # t1[i]
            /\ ToLowerRune(c) = ToLowerRune(t1[i])
            /\ t2 = ReplaceAt(t1, i, c)

\* t2 is t1 with one punctuation character put in, wherever
PunctuationAdded(t1, t2) ==
    \E i \in 1..(Len(t1) + 1) : t2 = InsertAt(t1, i, <<DOT>>)

\* t2 is t1 with one punctuation character put in at the start or the end of
\* a word (next to a separator or to an end of the text), or in the place of a
\* whitespace character
PunctuationAddedAtWordEnd(t1, t2) ==
    \/ \E i \in 1..(Len(t1) + 1) :
          /\ i = 1 \/ i = Len(t1) + 1 \/ IsSeparator(t1[i - 1]) \/ IsSeparator(t1[i])
          /\ t2 = InsertAt(t1, i, <<DOT>>)
    \/ \E i \in 1..Len(t1) : IsSpace(t1[i]) /\ t2 = ReplaceAt(t1, i, DOT)

\* t2 is t1 with more whitespace where there is some, or at an end of the text
WhitespaceAdded(t1, t2) ==
    \E i \in 1..(Len(t1) + 1) :
        /\ i = 1 \/ i = Len(t1) + 1 \/ IsSpace(t1[i - 1]) \/ IsSpace(t1[i])
        /\ t2 = InsertAt(t1, i, <<SP>>)

\* t2 is t1 with the stop word "a" put in as a word of its own
StopWordAdded(t1, t2) ==
    \E i \in 1..(Len(t1) + 1) :
        /\ i = 1 \/ IsSeparator(t1[i - 1])
        /\ t2 = InsertAt(t1, i, <<"a", SP>>)

\* the two texts differ only in letter case, in punctuation characters, in
\* the amount of whitespace or in occurrences of stop words
DiffersOnlyIn(t1, t2) ==
    \/ CaseChanged(t1, t2) \/ CaseChanged(t2, t1)
    \/ PunctuationAdded(t1, t2) \/ PunctuationAdded(t2, t1)
    \/ WhitespaceAdded(t1, t2) \/ WhitespaceAdded(t2, t1)
    \/ StopWordAdded(t1, t2) \/ StopWordAdded(t2, t1)

\* the same, the punctuation being at the ends of words
DiffersOnlyOutsideWords(t1, t2) ==
    \/ CaseChanged(t1, t2) \/ CaseChanged(t2, t1)
    \/ PunctuationAddedAtWordEnd(t1, t2) \/ PunctuationAddedAtWordEnd(t2, t1)
    \/ WhitespaceAdded(t1, t2) \/ WhitespaceAdded(t2, t1)
    \/ StopWordAdded(t1, t2) \/ StopWordAdded(t2, t1)

====
